---- MODULE Spec2Model ----
(***************************************************************************)
(* Model of ccan/tcon/tcon.h: the TCON declaration macro and the two use   *)
(* macros tcon_check and tcon_cast.                                        *)
(*                                                                         *)
(* The macros are modelled as what they are: rewrites of their arguments   *)
(* into a C expression (an abstract syntax tree), which is then typed      *)
(* (TypeOf, Diags: what the compiler does) and evaluated (Eval: what the   *)
(* abstract machine does).  A translation unit is a state machine: a       *)
(* container struct is declared with TCON, then uses of tcon_check and     *)
(* tcon_cast are compiled and run one after the other.                     *)
(***************************************************************************)
EXTENDS Integers, Sequences, FiniteSets, TLC

VARIABLES
    HAVE_FLEXIBLE_ARRAY_MEMBER, \* config.h, tcon.h:39
    HAVE_TYPEOF,                \* config.h, tcon.h:75
    cont,        \* the container struct declared with TCON: [raw, canaries]
    contSize,    \* sizeof the container struct
    call,        \* the macro use compiled and run last: [op, x, canary, expr]
    res,         \* the value and static type that use evaluated to
    diag,        \* TRUE iff the compiler had to diagnose that use
    xEvals,      \* how often the side effects of the x argument were performed
    exprEvals,   \* how often the side effects of the expr argument were performed
    tconAccess,  \* run-time accesses (reads or writes) to a _tcon member
    steps        \* macro uses run so far

vars == <<HAVE_FLEXIBLE_ARRAY_MEMBER, HAVE_TYPEOF, cont, contSize, call, res,
          diag, xEvals, exprEvals, tconAccess, steps>>

config == <<HAVE_FLEXIBLE_ARRAY_MEMBER, HAVE_TYPEOF>>
runtime == <<call, res, diag, xEvals, exprEvals, tconAccess, steps>>

(***************************************************************************)
(* Bounds.                                                                 *)
(***************************************************************************)
MaxSteps == 2      \* macro uses per behaviour
MaxCanaries == 2   \* canaries declared in one TCON(decls)
MaxRaw == 2        \* members of the container before the TCON member

(***************************************************************************)
(* C types.  The types a canary or an expression may have, and the target  *)
(* (an LP64 ABI) that gives them a size and an alignment.                  *)
(***************************************************************************)
ArithTypes == {"char", "int", "long", "double"}
IntTypes == {"char", "int", "long"}
PtrTypes == {"char*", "const char*", "int*", "void*"}
StructTypes == {"struct A", "struct B"}
ScalarTypes == ArithTypes \cup PtrTypes
Types == ScalarTypes \cup StructTypes

\* What a pointer type points to, and whether the pointee is const.
Pointee(t) ==
    CASE t = "char*"       -> [to |-> "char", const |-> FALSE]
      [] t = "const char*" -> [to |-> "char", const |-> TRUE]
      [] t = "int*"        -> [to |-> "int",  const |-> FALSE]
      [] t = "void*"       -> [to |-> "void", const |-> FALSE]
      [] t = "container*"  -> [to |-> "container", const |-> FALSE]

IsPtr(t) == t \in PtrTypes \cup {"container*"}
IsArith(t) == t \in ArithTypes \cup {"size_t"}
IsScalar(t) == IsPtr(t) \/ IsArith(t)

Sizeof(t) ==
    CASE t = "char"     -> 1
      [] t = "int"      -> 4
      [] t = "struct A" -> 12   \* struct A { int a[3]; }
      [] t = "struct B" -> 16   \* struct B { void *p; long n; }
      [] OTHER          -> 8    \* long, double, size_t, every pointer

Alignof(t) ==
    CASE t = "char"     -> 1
      [] t = "int"      -> 4
      [] t = "struct A" -> 4
      [] OTHER          -> 8

Max(a, b) == IF a >= b THEN a ELSE b
RoundUp(n, a) == ((n + a - 1) \div a) * a

(***************************************************************************)
(* Struct layout, as the compiler lays out a struct: each member at the    *)
(* next offset that is a multiple of its alignment, the struct aligned as  *)
(* its most aligned member and padded at the end to a multiple of that.    *)
(* A member is [size, align]; an array member of n elements has n times    *)
(* the element's size and the element's alignment (a flexible array member *)
(* has n = 0: it takes no storage but still aligns the struct).            *)
(***************************************************************************)
Member(t) == [size |-> Sizeof(t), align |-> Alignof(t)]

RECURSIVE EndOf(_)
EndOf(members) ==
    IF members = <<>> THEN 0
    ELSE LET m == members[Len(members)]
         IN  RoundUp(EndOf(SubSeq(members, 1, Len(members) - 1)), m.align) + m.size

RECURSIVE AlignOfStruct(_)
AlignOfStruct(members) ==
    IF members = <<>> THEN 1
    ELSE Max(members[Len(members)].align,
             AlignOfStruct(SubSeq(members, 1, Len(members) - 1)))

SizeOfStruct(members) == RoundUp(EndOf(members), AlignOfStruct(members))

Members(types) == [i \in 1..Len(types) |-> Member(types[i])]

\* struct { decls; }: the anonymous struct holding the canaries.
CanaryStruct(decls) ==
    [size |-> SizeOfStruct(Members(decls)), align |-> AlignOfStruct(Members(decls))]

(***************************************************************************)
(* TCON(decls), tcon.h:39-43: the member  struct { decls; } _tcon[]  when  *)
(* HAVE_FLEXIBLE_ARRAY_MEMBER, and  struct { decls; } _tcon[1]  otherwise. *)
(***************************************************************************)
\* A slip: _tcon[1] in both configurations.
TCON_always_one(fam, decls) ==
    [size |-> CanaryStruct(decls).size, align |-> CanaryStruct(decls).align]

TCON(fam, decls) ==
    [size  |-> (IF fam THEN 0 ELSE 1) * CanaryStruct(decls).size,
     align |-> CanaryStruct(decls).align]

\* sizeof a container struct whose members are raw followed by TCON(decls).
SizeofContainer(fam, raw, decls) ==
    SizeOfStruct(Append(Members(raw), TCON(fam, decls)))

\* The member types the model puts before the TCON member.
RawTypes == {"char", "int", "void*", "double"}

SeqsUpTo(S, n) == UNION {[1..k -> S] : k \in 1..n}

\* The canary types the model declares: one of each size and alignment.
DeclTypes == {"char", "int", "double", "char*", "struct A", "struct B"}

Containers == [raw : SeqsUpTo(RawTypes, MaxRaw), canaries : SeqsUpTo(DeclTypes, MaxCanaries)]

NoCont == [raw |-> <<>>, canaries |-> <<>>]
NoCall == [op |-> "none"]
NoRes == [ty |-> "none", val |-> 0]

(***************************************************************************)
(* A struct definition with TCON(decls) as its last member.  A struct is   *)
(* defined once.                                                           *)
(***************************************************************************)
DeclareTCON ==
    /\ cont = NoCont
    /\ \E c \in Containers :
          /\ cont' = c
          /\ contSize' = SizeofContainer(HAVE_FLEXIBLE_ARRAY_MEMBER, c.raw, c.canaries)
    /\ UNCHANGED <<config, runtime>>

InitDecl ==
    /\ HAVE_FLEXIBLE_ARRAY_MEMBER \in BOOLEAN
    /\ HAVE_TYPEOF \in BOOLEAN
    /\ cont = NoCont    \* no container struct defined yet
    /\ contSize = 0
    /\ call = NoCall
    /\ res = NoRes
    /\ diag = FALSE
    /\ xEvals = 0
    /\ exprEvals = 0
    /\ tconAccess = 0
    /\ steps = 0

NextDecl == DeclareTCON

SpecDecl == InitDecl /\ [][NextDecl]_vars

(***************************************************************************)
(* C expressions.  A macro argument is the text of an expression: what the *)
(* model keeps of it is its static type, whether it is a null pointer      *)
(* constant (the integer constant 0), the value it evaluates to, and that  *)
(* evaluating it has a side effect (counted in xEvals or exprEvals).       *)
(* Double values are kept in halves (3 stands for 1.5); pointer values are *)
(* addresses.                                                              *)
(***************************************************************************)
XArgs == {[name |-> "x", ty |-> "container*", val |-> v, npc |-> FALSE] : v \in {0, 4096}}

ExprValues ==
    {<<"int", 0, TRUE>>, <<"int", 300, FALSE>>,
     <<"char", 65, FALSE>>, <<"long", 100000, FALSE>>, <<"double", 3, FALSE>>,
     <<"char*", 4096, FALSE>>, <<"const char*", 4100, FALSE>>,
     <<"int*", 4104, FALSE>>, <<"void*", 0, FALSE>>,
     <<"struct A", 0, FALSE>>, <<"struct B", 0, FALSE>>}

ExprArgs == {[name |-> "expr", ty |-> e[1], val |-> e[2], npc |-> e[3]] : e \in ExprValues}

\* The nodes of an expression.
Arg(a) == [k |-> "arg", a |-> a]                                  \* (a)
TconMember(obj, canary) == [k |-> "member", obj |-> obj, canary |-> canary]  \* obj->_tcon[0].canary
Eq(l, r) == [k |-> "eq", l |-> l, r |-> r]                        \* l == r
SizeofE(e) == [k |-> "sizeof", e |-> e]                           \* sizeof(e)
Cond(c, t, f) == [k |-> "cond", c |-> c, t |-> t, f |-> f]        \* c ? t : f
Cast(tn, e) == [k |-> "cast", tn |-> tn, e |-> e]                 \* (tn)e
TypeName(t) == [k |-> "type", ty |-> t]                           \* a type name
TypeofE(e) == [k |-> "typeof", e |-> e]                           \* __typeof__(e)

(***************************************************************************)
(* tcon_check(x, canary, expr), tcon.h:61-62:                              *)
(*     (sizeof((x)->_tcon[0].canary == (expr)) ? (x) : (x))                *)
(***************************************************************************)
\* Slips in the expansion: the sizeof left out; the sizeof closed before the
\* comparison; the comparison left out; the conditional left out.
tcon_check_no_sizeof(x, canary, expr) ==
    Cond(Eq(TconMember(Arg(x), canary), Arg(expr)), Arg(x), Arg(x))

tcon_check_sizeof_canary_only(x, canary, expr) ==
    Cond(Eq(SizeofE(TconMember(Arg(x), canary)), Arg(expr)), Arg(x), Arg(x))

tcon_check_no_compare(x, canary, expr) ==
    Cond(SizeofE(TconMember(Arg(x), canary)), Arg(x), Arg(x))

tcon_check_no_chain(x, canary, expr) ==
    SizeofE(Eq(TconMember(Arg(x), canary), Arg(expr)))

tcon_check(x, canary, expr) ==
    Cond(SizeofE(Eq(TconMember(Arg(x), canary), Arg(expr))), Arg(x), Arg(x))

(***************************************************************************)
(* tcon_cast(x, canary, expr), tcon.h:75-79:                               *)
(*     ((__typeof__((x)->_tcon[0].canary))(expr))   when HAVE_TYPEOF       *)
(*     (expr) cast to pointer to void               otherwise              *)
(***************************************************************************)
\* Slips in the expansion: the fallback used in both configurations; a
\* fallback that tests x.
tcon_cast_always_void(typeof, x, canary, expr) ==
    Cast(TypeName("void*"), Arg(expr))

tcon_cast_tests_x(typeof, x, canary, expr) ==
    IF typeof
    THEN Cast(TypeofE(TconMember(Arg(x), canary)), Arg(expr))
    ELSE Cast(TypeName("void*"), Cond(Arg(x), Arg(expr), Arg(expr)))

tcon_cast(typeof, x, canary, expr) ==
    IF typeof
    THEN Cast(TypeofE(TconMember(Arg(x), canary)), Arg(expr))
    ELSE Cast(TypeName("void*"), Arg(expr))

(***************************************************************************)
(* Typing.  cs is the list of canary types of the container x points to.   *)
(***************************************************************************)
RECURSIVE TypeOf(_, _)
TypeOf(e, cs) ==
    CASE e.k = "arg"    -> e.a.ty
      [] e.k = "member" -> cs[e.canary]
      [] e.k = "eq"     -> "int"
      [] e.k = "sizeof" -> "size_t"
      [] e.k = "cond"   -> TypeOf(e.t, cs)
      [] e.k = "cast"   -> TypeOf(e.tn, cs)
      [] e.k = "type"   -> e.ty
      [] e.k = "typeof" -> TypeOf(e.e, cs)

IsNPC(e) == e.k = "arg" /\ e.a.npc

\* The constraint on the operands of ==: both arithmetic; or pointers to
\* (qualified or unqualified versions of) the same type; or a pointer to an
\* object and a pointer to void; or a pointer and a null pointer constant.
\* (EqOk_no_void: the same without the pointer to void case.)
EqOk_no_void(lt, lnpc, rt, rnpc) ==
    \/ IsArith(lt) /\ IsArith(rt)
    \/ IsPtr(lt) /\ IsPtr(rt) /\ Pointee(lt).to = Pointee(rt).to
    \/ IsPtr(lt) /\ rnpc
    \/ IsPtr(rt) /\ lnpc

EqOk(lt, lnpc, rt, rnpc) ==
    \/ IsArith(lt) /\ IsArith(rt)
    \/ IsPtr(lt) /\ IsPtr(rt) /\ (\/ Pointee(lt).to = Pointee(rt).to
                                  \/ Pointee(lt).to = "void"
                                  \/ Pointee(rt).to = "void")
    \/ IsPtr(lt) /\ rnpc
    \/ IsPtr(rt) /\ lnpc

\* The constraint on a cast: scalar to scalar, and never between a pointer
\* and a floating type.
CastOk(to, from) ==
    /\ IsScalar(to) /\ IsScalar(from)
    /\ ~(IsPtr(to) /\ from = "double")
    /\ ~(to = "double" /\ IsPtr(from))

\* The constraint violations the compiler must diagnose in e.  The operand
\* of sizeof or __typeof__ is not evaluated, but it is still type-checked.
RECURSIVE Diags(_, _)
Diags(e, cs) ==
    CASE e.k = "arg"    -> {}
      [] e.k = "member" -> Diags(e.obj, cs) \cup
                           (IF e.canary \in DOMAIN cs THEN {} ELSE {"no such member"})
      [] e.k = "eq"     -> Diags(e.l, cs) \cup Diags(e.r, cs) \cup
                           (IF EqOk(TypeOf(e.l, cs), IsNPC(e.l), TypeOf(e.r, cs), IsNPC(e.r))
                            THEN {} ELSE {"comparison"})
      [] e.k = "sizeof" -> Diags(e.e, cs)
      [] e.k = "cond"   -> Diags(e.c, cs) \cup Diags(e.t, cs) \cup Diags(e.f, cs) \cup
                           (IF IsScalar(TypeOf(e.c, cs)) THEN {} ELSE {"condition"})
      [] e.k = "cast"   -> Diags(e.tn, cs) \cup Diags(e.e, cs) \cup
                           (IF CastOk(TypeOf(e.tn, cs), TypeOf(e.e, cs)) THEN {} ELSE {"cast"})
      [] e.k = "type"   -> {}
      [] e.k = "typeof" -> Diags(e.e, cs)

(***************************************************************************)
(* Evaluation.  The conversion a cast performs on a value: a double is     *)
(* truncated towards zero when converted to an integer type, char keeps    *)
(* the low 8 bits (signed), an integer converted to double keeps its       *)
(* value, and a pointer keeps its address.  The values of the model fit    *)
(* int, long and a pointer, so those conversions change nothing.           *)
(***************************************************************************)
Trunc(halves) == IF halves >= 0 THEN halves \div 2 ELSE -((-halves) \div 2)
WrapChar(v) == ((v + 128) % 256) - 128

CCast(to, from, v) ==
    LET i == IF from = "double" THEN Trunc(v) ELSE v
    IN  CASE to = "char"   -> WrapChar(i)
          [] to = "double" -> IF from = "double" THEN v ELSE 2 * v
          [] IsPtr(to)     -> v
          [] OTHER         -> i

\* The run-time state an expression can change.
Effects == [xEvals |-> xEvals, exprEvals |-> exprEvals, tconAccess |-> tconAccess]

\* Evaluating e in state st: [val, st].  The operand of sizeof and of
\* __typeof__ is not evaluated (none has a variably modified type); of the
\* second and third operand of ?: exactly one is.
RECURSIVE Eval(_, _, _)
Eval(e, st, cs) ==
    CASE e.k = "arg" ->
            [val |-> e.a.val,
             st  |-> IF e.a.name = "x"
                     THEN [st EXCEPT !.xEvals = @ + 1]
                     ELSE [st EXCEPT !.exprEvals = @ + 1]]
      [] e.k = "member" ->
            \* reads the canary of element 0 of _tcon through the pointer; the
            \* value read is indeterminate (nothing initialises _tcon), and no
            \* expansion of the header gets here
            LET o == Eval(e.obj, st, cs)
            IN  [val |-> 0, st |-> [o.st EXCEPT !.tconAccess = @ + 1]]
      [] e.k = "eq" ->
            LET l == Eval(e.l, st, cs)
                r == Eval(e.r, l.st, cs)
            IN  [val |-> IF l.val = r.val THEN 1 ELSE 0, st |-> r.st]
      [] e.k = "sizeof" ->
            [val |-> Sizeof(TypeOf(e.e, cs)), st |-> st]
      [] e.k = "cond" ->
            LET c == Eval(e.c, st, cs)
            IN  IF c.val # 0 THEN Eval(e.t, c.st, cs) ELSE Eval(e.f, c.st, cs)
      [] e.k = "cast" ->
            LET v == Eval(e.e, st, cs)
            IN  [val |-> CCast(TypeOf(e.tn, cs), TypeOf(e.e, cs), v.val), st |-> v.st]

(***************************************************************************)
(* A use of a macro: the expansion is compiled (its type, its diagnostics) *)
(* and run.  A diagnostic need not stop the translation, so the expansion  *)
(* is run whether or not one was issued.                                   *)
(***************************************************************************)
Compile(e) == [ty |-> TypeOf(e, cont.canaries), diag |-> Diags(e, cont.canaries) # {}]
Run(e) == Eval(e, Effects, cont.canaries)

TconCheck(x, canary, expr) ==
    /\ steps < MaxSteps
    /\ canary \in DOMAIN cont.canaries
    /\ call' = [op |-> "check", x |-> x, canary |-> canary, expr |-> expr]
    /\ res' = [ty |-> Compile(tcon_check(x, canary, expr)).ty,
               val |-> Run(tcon_check(x, canary, expr)).val]
    /\ diag' = Compile(tcon_check(x, canary, expr)).diag
    /\ xEvals' = Run(tcon_check(x, canary, expr)).st.xEvals
    /\ exprEvals' = Run(tcon_check(x, canary, expr)).st.exprEvals
    /\ tconAccess' = Run(tcon_check(x, canary, expr)).st.tconAccess
    /\ steps' = steps + 1
    /\ UNCHANGED <<config, cont, contSize>>

TconCast(x, canary, expr) ==
    /\ steps < MaxSteps
    /\ canary \in DOMAIN cont.canaries
    /\ call' = [op |-> "cast", x |-> x, canary |-> canary, expr |-> expr]
    /\ res' = [ty |-> Compile(tcon_cast(HAVE_TYPEOF, x, canary, expr)).ty,
               val |-> Run(tcon_cast(HAVE_TYPEOF, x, canary, expr)).val]
    /\ diag' = Compile(tcon_cast(HAVE_TYPEOF, x, canary, expr)).diag
    /\ xEvals' = Run(tcon_cast(HAVE_TYPEOF, x, canary, expr)).st.xEvals
    /\ exprEvals' = Run(tcon_cast(HAVE_TYPEOF, x, canary, expr)).st.exprEvals
    /\ tconAccess' = Run(tcon_cast(HAVE_TYPEOF, x, canary, expr)).st.tconAccess
    /\ steps' = steps + 1
    /\ UNCHANGED <<config, cont, contSize>>

\* The container structs the uses are run on: the two examples of the
\* header (string_list, int_to_string_map) and four more, so that every
\* type of the model is the type of some canary.
UseContainers ==
    {[raw |-> <<"void*", "void*">>, canaries |-> <<"char*">>],
     [raw |-> <<"void*">>, canaries |-> <<"char*", "int">>],
     [raw |-> <<"void*">>, canaries |-> <<"void*", "double">>],
     [raw |-> <<"int">>, canaries |-> <<"const char*", "struct A">>],
     [raw |-> <<"char">>, canaries |-> <<"int*", "long">>],
     [raw |-> <<"double", "char">>, canaries |-> <<"char", "struct B">>]}

Init ==
    /\ HAVE_FLEXIBLE_ARRAY_MEMBER \in BOOLEAN
    /\ HAVE_TYPEOF \in BOOLEAN
    /\ cont \in UseContainers
    /\ contSize = SizeofContainer(HAVE_FLEXIBLE_ARRAY_MEMBER, cont.raw, cont.canaries)
    /\ call = NoCall
    /\ res = NoRes
    /\ diag = FALSE
    /\ xEvals = 0
    /\ exprEvals = 0
    /\ tconAccess = 0
    /\ steps = 0

Next ==
    \/ \E x \in XArgs, canary \in 1..MaxCanaries, expr \in ExprArgs : TconCheck(x, canary, expr)
    \/ \E x \in XArgs, canary \in 1..MaxCanaries, expr \in ExprArgs : TconCast(x, canary, expr)

Spec == Init /\ [][Next]_vars

(***************************************************************************)
(* Properties.                                                             *)
(***************************************************************************)
\* The declared type of the canary the last use named, and the static type
\* of the expression it was given.
CanaryType == cont.canaries[call.canary]
ExprType == call.expr.ty

\* The constraint on simple assignment of an expression of type rt to an
\* object of type lt: both arithmetic; the same struct type; pointers to the
\* same type or one of them to void, the left pointee at least as qualified
\* as the right; or a pointer on the left and a null pointer constant.
Assignable(lt, rt, rnpc) ==
    \/ IsArith(lt) /\ IsArith(rt)
    \/ lt \in StructTypes /\ lt = rt
    \/ /\ IsPtr(lt) /\ IsPtr(rt)
       /\ (\/ Pointee(lt).to = Pointee(rt).to
           \/ Pointee(lt).to = "void"
           \/ Pointee(rt).to = "void")
       /\ (Pointee(rt).const => Pointee(lt).const)
    \/ IsPtr(lt) /\ rnpc

\* expr can neither be assigned to the canary nor the canary to an object of
\* expr's type.
Incompatible ==
    /\ ~Assignable(CanaryType, ExprType, call.expr.npc)
    /\ ~Assignable(ExprType, CanaryType, FALSE)

\* C1: tcon_check(x, canary, expr) evaluates to exactly x, with x's type,
\* whatever the canary and the expression are.
C1_CheckEvaluatesToX ==
    call.op = "check" => res.val = call.x.val /\ res.ty = call.x.ty

C1_Witness ==
    call.op = "check" /\ call.x.val = 4096 /\ res.val = 4096 /\ diag

C3_SameTypeNoDiagnostic ==
    (call.op = "check" /\ ExprType = CanaryType) =>
        (~diag /\ res.val = call.x.val)

\* C3 amended: for a canary of a scalar (arithmetic or pointer) type T and
\* an expression of type T, tcon_check compiles without a diagnostic and
\* evaluates to x.
C3_SameScalarTypeNoDiagnostic ==
    (call.op = "check" /\ ExprType = CanaryType /\ CanaryType \in ScalarTypes) =>
        (~diag /\ res.val = call.x.val)

C3_Witness ==
    /\ call.op = "check" /\ ExprType = CanaryType /\ CanaryType = "const char*"
    /\ ~diag /\ res.val = call.x.val

C5_CastType ==
    call.op = "cast" =>
        /\ res.ty = (IF HAVE_TYPEOF THEN CanaryType ELSE "void*")
        /\ ~diag => res.val = CCast(res.ty, ExprType, call.expr.val)

C5_Witness ==
    /\ call.op = "cast" /\ HAVE_TYPEOF /\ CanaryType = "char"
    /\ call.expr.val = 300 /\ res.ty = "char" /\ res.val = 44 /\ ~diag

\* C7: tcon_check never evaluates expr: a use of tcon_check performs none of
\* expr's side effects (and accesses no _tcon).
C7_CheckDoesNotEvaluateExpr ==
    [][(steps' # steps /\ call'.op = "check") =>
            (exprEvals' = exprEvals /\ tconAccess' = tconAccess)]_vars

C7_Witness ==
    call.op = "check" /\ exprEvals = 0 /\ steps = 2

\* C8: neither tcon_check nor tcon_cast reads or writes a _tcon member at run
\* time, in any configuration.
C8_NoTconAccess ==
    tconAccess = 0

C8_Witness ==
    /\ xEvals > 0 /\ exprEvals > 0 /\ tconAccess = 0
    /\ HAVE_FLEXIBLE_ARRAY_MEMBER /\ HAVE_TYPEOF /\ call.x.val = 0

\* C9: a use of tcon_check evaluates x exactly once.
C9_CheckEvaluatesXOnce ==
    [][(steps' # steps /\ call'.op = "check") => xEvals' = xEvals + 1]_vars

C9_Witness ==
    call.op = "check" /\ xEvals = 2 /\ steps = 2

\* C10: a use of tcon_cast evaluates expr exactly once and x never, with and
\* without HAVE_TYPEOF.
C10_CastEvaluatesExprOnce ==
    [][(steps' # steps /\ call'.op = "cast") =>
            (exprEvals' = exprEvals + 1 /\ xEvals' = xEvals /\ tconAccess' = tconAccess)]_vars

C10_Witness ==
    call.op = "cast" /\ ~HAVE_TYPEOF /\ exprEvals = 2 /\ xEvals = 0

\* sizeof the same struct without the TCON member, the unpadded end of its
\* members and its alignment; the size and alignment of one canary struct.
SizeWithout == SizeOfStruct(Members(cont.raw))
RawEnd == EndOf(Members(cont.raw))
RawAlign == AlignOfStruct(Members(cont.raw))
ElemSize == CanaryStruct(cont.canaries).size
ElemAlign == CanaryStruct(cont.canaries).align

\* C6 as stated: with HAVE_FLEXIBLE_ARRAY_MEMBER the struct is as large as
\* the same struct without the TCON member; without it the struct grows by
\* one canary struct, plus padding.
C6_SizeAsStated ==
    cont # NoCont =>
        IF HAVE_FLEXIBLE_ARRAY_MEMBER
        THEN contSize = SizeWithout
        ELSE contSize >= SizeWithout + ElemSize

\* C6 amended: with HAVE_FLEXIBLE_ARRAY_MEMBER the size is the size without
\* the TCON member rounded up to the canary struct's alignment (so the same
\* whenever the canary struct is no more aligned than the other members);
\* without it the struct holds one canary struct after the other members,
\* which may lie in what was trailing padding: the size is at least the
\* unpadded end of the other members plus one canary struct, never less
\* than the size without TCON, and exceeds it by at most one canary struct
\* plus less than one alignment unit of padding.
C6_Size ==
    cont # NoCont =>
        IF HAVE_FLEXIBLE_ARRAY_MEMBER
        THEN /\ contSize = RoundUp(SizeWithout, ElemAlign)
             /\ ElemAlign <= RawAlign => contSize = SizeWithout
        ELSE /\ contSize >= RawEnd + ElemSize
             /\ contSize >= SizeWithout
             /\ contSize < SizeWithout + ElemSize + Max(RawAlign, ElemAlign)

C6_Witness ==
    /\ cont # NoCont /\ HAVE_FLEXIBLE_ARRAY_MEMBER
    /\ cont.raw = <<"int">> /\ cont.canaries = <<"char*">>
    /\ SizeWithout = 4 /\ contSize = 8

====
